---------------------------- MODULE Spec2Model ----------------------------
(***************************************************************************)
(* Model of the "Raw to Ready" cleaning pipeline in its two generations,   *)
(* src/app_v2.py ("v2") and src/sprint3.py ("s3").                         *)
(*                                                                         *)
(* A string is a sequence of one-character strings, a cell is a record     *)
(* [k, v] (missing, number or string) and a data frame is a record         *)
(* [columns, index, data]: column names, pandas row labels and rows.       *)
(***************************************************************************)
EXTENDS Integers, Sequences, FiniteSets, TLC

VARIABLES
    app,          \* which script runs: "v2" (app_v2.py) or "s3" (sprint3.py)
    uploaded,     \* the file in the uploader widget (a frame) or NoFile
    df_raw,       \* the loaded raw dataset (s3: st.session_state.df_raw; v2: df)
    config,       \* the option widgets
    df_clean,     \* the cleaned dataset of the last completed run, or None
    anomalies,    \* the anomaly set of the last completed run, or None
    report,       \* the summary figures shown, or None
    outcome,      \* how the last run request ended
    trail,        \* the cleaning steps of the last run, in execution order
    detect_input, \* the frame the anomaly detector read in the last run
    z_scored,     \* the columns (positions in detect_input) the detector of the
                  \* last run divided by their standard deviation
    run_input,    \* the raw frame and the options the last run started from
    cleaned_from, \* the run whose cleaned CSV is uploaded (its raw frame, options
                  \* and cleaned frame), or None
    pandas,       \* what the runs have shown of the installed pandas: "unknown", or
                  \* "yes"/"no" to the one question the script's result depends on
    runs,         \* number of run requests so far
    users,        \* the rows of the users table
    logged_in,    \* st.session_state: logged_in
    username,     \* st.session_state: username
    email,        \* st.session_state: email (app_v2.py; sprint3.py keeps none)
    show_register,\* st.session_state: show_register (app_v2.py)
    menu,         \* the page chosen in the sidebar
    auth_log      \* the last account action and the login attempts so far

\* the session and the accounts
auth == <<users, logged_in, username, email, show_register, menu, auth_log>>

\* the cleaning side of the session
cleaning == <<uploaded, df_raw, config, df_clean, anomalies, report, outcome, trail,
              detect_input, z_scored, run_input, cleaned_from, pandas, runs>>

vars == <<app, uploaded, df_raw, config, df_clean, anomalies, report,
          outcome, trail, detect_input, z_scored, run_input, cleaned_from, pandas, runs,
          users, logged_in, username, email, show_register, menu, auth_log>>

(***************************************************************************)
(* Bounds of the model.                                                    *)
(***************************************************************************)
MaxRows == 2
MaxRuns == 2

(***************************************************************************)
(* Characters and Python's str methods.                                    *)
(***************************************************************************)
LowerCase == <<"a","b","c","d","e","f","g","h","i","j","k","l","m",
               "n","o","p","q","r","s","t","u","v","w","x","y","z">>
UpperCase == <<"A","B","C","D","E","F","G","H","I","J","K","L","M",
               "N","O","P","Q","R","S","T","U","V","W","X","Y","Z">>
Digits == <<"0","1","2","3","4","5","6","7","8","9">>

Range(s) == {s[i] : i \in DOMAIN s}

\* F(x) with x evaluated once, before F is applied
Force(F(_), x) == CHOOSE r \in {F(v) : v \in {x}} : TRUE

IndexIn(c, s) == CHOOSE i \in DOMAIN s : s[i] = c

IsLower(c) == c \in Range(LowerCase)
IsUpper(c) == c \in Range(UpperCase)
IsAlpha(c) == IsLower(c) \/ IsUpper(c)
IsDigit(c) == c \in Range(Digits)
IsSpace(c) == c = " "

DigitVal(c) == IndexIn(c, Digits) - 1

LowerChar(c) == IF IsUpper(c) THEN LowerCase[IndexIn(c, UpperCase)] ELSE c
UpperChar(c) == IF IsLower(c) THEN UpperCase[IndexIn(c, LowerCase)] ELSE c

\* str.lower()
StrLower(s) == [i \in DOMAIN s |-> LowerChar(s[i])]

\* str.strip(): leading and trailing whitespace removed
StrStrip(s) ==
    LET keep == {i \in DOMAIN s : ~IsSpace(s[i])}
    IN  IF keep = {} THEN <<>>
        ELSE LET lo == CHOOSE i \in keep : \A j \in keep : i <= j
                 hi == CHOOSE i \in keep : \A j \in keep : i >= j
             IN  SubSeq(s, lo, hi)

\* str.title(): a letter is upper-cased after a non-letter, lower-cased after a letter
StrTitle(s) ==
    [i \in DOMAIN s |->
        IF i = 1 \/ ~IsAlpha(s[i - 1]) THEN UpperChar(s[i]) ELSE LowerChar(s[i])]

\* str.capitalize(): first character upper-cased, the rest lower-cased
StrCapitalize(s) ==
    [i \in DOMAIN s |-> IF i = 1 THEN UpperChar(s[i]) ELSE LowerChar(s[i])]

\* str.replace(" ", "_")
StrReplaceSpace(s) == [i \in DOMAIN s |-> IF s[i] = " " THEN "_" ELSE s[i]]

\* sub in s
StrContains(s, sub) ==
    \E i \in 0..(Len(s) - Len(sub)) : SubSeq(s, i + 1, i + Len(sub)) = sub

\* Python's order on characters of the model's alphabet (code points)
CodeOrder == <<" ", ",", "-", ".", "/">> \o Digits \o <<"@">> \o UpperCase
             \o <<"_">> \o LowerCase
Code(c) == IndexIn(c, CodeOrder)

\* s < t for Python strings
RECURSIVE StrLess(_, _)
StrLess(s, t) ==
    IF t = <<>> THEN FALSE
    ELSE IF s = <<>> THEN TRUE
    ELSE IF s[1] # t[1] THEN Code(s[1]) < Code(t[1])
    ELSE StrLess(Tail(s), Tail(t))

(***************************************************************************)
(* Numbers: exact rationals <<n, d>> in lowest terms, d > 0.               *)
(***************************************************************************)
Abs(n) == IF n < 0 THEN -n ELSE n

RECURSIVE Gcd(_, _)
Gcd(a, b) == IF b = 0 THEN a ELSE Gcd(b, a % b)

Rat(n, d) ==
    LET g == Gcd(Abs(n), d)
    IN  IF n = 0 THEN <<0, 1>> ELSE <<n \div g, d \div g>>

RatAdd(p, q) == Rat(p[1] * q[2] + q[1] * p[2], p[2] * q[2])
RatSub(p, q) == Rat(p[1] * q[2] - q[1] * p[2], p[2] * q[2])
RatMul(p, q) == Rat(p[1] * q[1], p[2] * q[2])
RatDivInt(p, k) == Rat(p[1], p[2] * k)
RatLess(p, q) == p[1] * q[2] < q[1] * p[2]

RECURSIVE RatSum(_)
RatSum(s) == IF s = <<>> THEN <<0, 1>> ELSE RatAdd(Head(s), RatSum(Tail(s)))

\* the sequence s without its element at position i
RemoveAt(s, i) == SubSeq(s, 1, i - 1) \o SubSeq(s, i + 1, Len(s))

RECURSIVE SortRat(_)
SortRat(s) ==
    IF s = <<>> THEN <<>>
    ELSE LET i == CHOOSE i \in DOMAIN s :
                      \A j \in DOMAIN s : ~RatLess(s[j], s[i])
         IN  <<s[i]>> \o SortRat(RemoveAt(s, i))

RECURSIVE NatStr(_)
NatStr(n) ==
    IF n < 10 THEN <<Digits[n + 1]>>
    ELSE NatStr(n \div 10) \o <<Digits[(n % 10) + 1]>>

\* repr of a Python float with a short decimal expansion (x.0 or x.5)
FloatStr(q) ==
    LET sign == IF q[1] < 0 THEN <<"-">> ELSE <<>>
        whole == Abs(q[1]) \div q[2]
    IN  CASE q[2] = 1 -> sign \o NatStr(whole) \o <<".", "0">>
          [] q[2] = 2 -> sign \o NatStr(whole) \o <<".", "5">>

(***************************************************************************)
(* Cells and data frames.                                                  *)
(***************************************************************************)
NaN == [k |-> "nan", v |-> <<>>]
NumCell(q) == [k |-> "num", v |-> q]
StrCell(s) == [k |-> "str", v |-> s]
Int2Cell(n) == NumCell(<<n, 1>>)

IsNull(c) == c.k = "nan"
IsNum(c) == c.k = "num"
IsStr(c) == c.k = "str"

None == [k |-> "none"]
NoFile == [k |-> "nofile"]

\* str(x): a string is itself, a missing cell is "nan", a number is a float's repr
\* (a numeric cell reaches str() only in a column that held a missing cell: float64)
PyStr(c) ==
    CASE IsStr(c) -> c.v
      [] IsNull(c) -> <<"n", "a", "n">>
      [] IsNum(c) -> FloatStr(c.v)

Frame(columns, index, data) == [columns |-> columns, index |-> index, data |-> data]

NRows(df) == Len(df.data)
NCols(df) == Len(df.columns)
ColIds(df) == 1..NCols(df)
Column(df, j) == [i \in 1..NRows(df) |-> df.data[i][j]]

\* df[col] = series (positional: the series keeps the frame's row labels)
SetColumn(df, j, series) ==
    [df EXCEPT !.data = [i \in 1..NRows(df) |-> [df.data[i] EXCEPT ![j] = series[i]]]]

\* the rows of df at the positions in keep, in order, with their labels
RECURSIVE Positions(_, _, _)
Positions(keep, i, n) ==
    IF i > n THEN <<>>
    ELSE (IF i \in keep THEN <<i>> ELSE <<>>) \o Positions(keep, i + 1, n)

TakeRows(df, keep) ==
    LET pos == Positions(keep, 1, NRows(df))
    IN  [df EXCEPT !.index = [i \in DOMAIN pos |-> df.index[pos[i]]],
                   !.data = [i \in DOMAIN pos |-> df.data[pos[i]]]]

\* dtype of a column, read from its cells: numeric iff it holds no string
IsNumericColumn(df, j) == \A i \in 1..NRows(df) : ~IsStr(df.data[i][j])
NumericColumns(df) == {j \in ColIds(df) : IsNumericColumn(df, j)}
ObjectColumns(df) == ColIds(df) \ NumericColumns(df)

RowHasNull(row) == \E j \in DOMAIN row : IsNull(row[j])

\* int(df.isnull().sum().sum())
NullCount(df) ==
    Cardinality({<<i, j>> \in (1..NRows(df)) \X ColIds(df) : IsNull(df.data[i][j])})

\* df.duplicated(): a row equal to an earlier row (missing equals missing)
IsDuplicated(df, i) == \E h \in 1..(i - 1) : df.data[h] = df.data[i]
DuplicatedCount(df) == Cardinality({i \in 1..NRows(df) : IsDuplicated(df, i)})

\* df.drop_duplicates(): first occurrences, order and labels kept
drop_duplicates(df) == TakeRows(df, {i \in 1..NRows(df) : ~IsDuplicated(df, i)})

\* dropna(how="all"): only the rows with every cell missing are dropped
DropnaAll(df) ==
    TakeRows(df, {i \in 1..NRows(df) : \E j \in ColIds(df) : ~IsNull(df.data[i][j])})

\* df.dropna(): the rows without a missing cell, order and labels kept
dropna(df) == TakeRows(df, {i \in 1..NRows(df) : ~RowHasNull(df.data[i])})

\* series.fillna(value)
fillna(series, value) == [i \in DOMAIN series |-> IF IsNull(series[i]) THEN value ELSE series[i]]

NonNull(series) == SelectSeq(series, LAMBDA c : ~IsNull(c))

\* series.mean(): missing cells skipped, NaN when none is left
SeriesMean(series) ==
    LET xs == NonNull(series)
    IN  IF xs = <<>> THEN NaN
        ELSE NumCell(RatDivInt(RatSum([i \in DOMAIN xs |-> xs[i].v]), Len(xs)))

\* series.median()
SeriesMedian(series) ==
    LET xs == NonNull(series)
        st == SortRat([i \in DOMAIN xs |-> xs[i].v])
        n  == Len(st)
    IN  IF n = 0 THEN NaN
        ELSE IF n % 2 = 1 THEN NumCell(st[(n + 1) \div 2])
        ELSE NumCell(RatDivInt(RatAdd(st[n \div 2], st[n \div 2 + 1]), 2))

\* the order pandas sorts the modes in
CellLess(a, b) ==
    IF IsNum(a) /\ IsNum(b) THEN RatLess(a.v, b.v)
    ELSE IF IsStr(a) /\ IsStr(b) THEN StrLess(a.v, b.v)
    ELSE IsNum(a) /\ IsStr(b)

\* series.mode(dropna=True): the most frequent values, sorted
CountOf(series, c) == Cardinality({i \in DOMAIN series : series[i] = c})
ModeSet(series) ==
    LET xs == Range(NonNull(series))
    IN  {c \in xs : \A e \in xs : CountOf(series, e) <= CountOf(series, c)}
\* mode[0]
ModeFirst(series) ==
    CHOOSE c \in ModeSet(series) : \A e \in ModeSet(series) : ~CellLess(e, c)

(***************************************************************************)
(* datetime.strptime / strftime, as app_v2.py's standardize_dates uses     *)
(* them.  A format is a sequence of directives ("Y", "y", "m", "d", "b"),  *)
(* "ws" for a blank of the format (which matches \s+) and literal          *)
(* characters.  strptime matches the directives' regular expressions and   *)
(* fails unless the whole string is consumed and the date exists.          *)
(***************************************************************************)
FmtISO    == <<"Y", "-", "m", "-", "d">>            \* "%Y-%m-%d"
FmtDMy    == <<"d", "/", "m", "/", "y">>            \* "%d/%m/%y"
FmtDMY    == <<"d", "/", "m", "/", "Y">>            \* "%d/%m/%Y"
FmtBdY    == <<"b", "ws", "d", ",", "ws", "Y">>     \* "%b %d, %Y"
FmtYdot   == <<"Y", ".", "m", ".", "d">>            \* "%Y.%m.%d"
FmtMDy    == <<"m", "/", "d", "/", "y">>            \* "%m/%d/%y"
FmtMDY    == <<"m", "/", "d", "/", "Y">>            \* "%m/%d/%Y"

MonthAbbr == << <<"j","a","n">>, <<"f","e","b">>, <<"m","a","r">>, <<"a","p","r">>,
                <<"m","a","y">>, <<"j","u","n">>, <<"j","u","l">>, <<"a","u","g">>,
                <<"s","e","p">>, <<"o","c","t">>, <<"n","o","v">>, <<"d","e","c">> >>

AllDigits(t) == \A i \in DOMAIN t : IsDigit(t[i])

RECURSIVE DigitsVal(_)
DigitsVal(t) ==
    IF t = <<>> THEN 0 ELSE 10 * DigitsVal(SubSeq(t, 1, Len(t) - 1)) + DigitVal(t[Len(t)])

\* the values the directive's regular expression gives the text t (none: no match)
DirectiveValues(dir, t) ==
    CASE dir = "Y" -> IF Len(t) = 4 /\ AllDigits(t) THEN {DigitsVal(t)} ELSE {}
      [] dir = "y" -> IF Len(t) = 2 /\ AllDigits(t)
                      THEN {IF DigitsVal(t) < 69 THEN 2000 + DigitsVal(t)
                                                 ELSE 1900 + DigitsVal(t)}
                      ELSE {}
      [] dir = "m" -> \* 1[0-2]|0[1-9]|[1-9]
                      IF Len(t) \in {1, 2} /\ AllDigits(t) /\ DigitsVal(t) \in 1..12
                      THEN {DigitsVal(t)} ELSE {}
      [] dir = "d" -> \* 3[01]|[12]\d|0[1-9]|[1-9]| [1-9]
                      IF Len(t) \in {1, 2} /\ AllDigits(t) /\ DigitsVal(t) \in 1..31
                      THEN {DigitsVal(t)}
                      ELSE IF Len(t) = 2 /\ t[1] = " " /\ IsDigit(t[2]) /\ t[2] # "0"
                      THEN {DigitVal(t[2])} ELSE {}
      [] dir = "b" -> {k \in 1..12 : MonthAbbr[k] = StrLower(t)}
      [] dir = "ws" -> IF t # <<>> /\ \A i \in DOMAIN t : IsSpace(t[i]) THEN {0} ELSE {}
      [] OTHER -> IF t = <<dir>> THEN {0} ELSE {}

DirectiveField(dir) ==
    CASE dir \in {"Y", "y"} -> "Y"
      [] dir \in {"m", "b"} -> "m"
      [] dir = "d" -> "d"
      [] OTHER -> "none"

\* the lengths of text the directive can match in a string of n characters
DirectiveWidths(dir, n) ==
    CASE dir = "Y" -> {4}
      [] dir = "y" -> {2}
      [] dir \in {"m", "d"} -> {1, 2}
      [] dir = "b" -> {3}
      [] dir = "ws" -> 1..n
      [] OTHER -> {1}

\* every way the directives from the k-th on match s from position pos to its end
RECURSIVE ParseFrom(_, _, _, _, _)
ParseFrom(s, pos, fmt, k, acc) ==
    IF k > Len(fmt) THEN (IF pos = Len(s) + 1 THEN {acc} ELSE {})
    ELSE UNION {
           UNION { ParseFrom(s, pos + w, fmt, k + 1,
                             IF DirectiveField(fmt[k]) = "none" THEN acc
                             ELSE [acc EXCEPT ![DirectiveField(fmt[k])] = val])
                   : val \in DirectiveValues(fmt[k], SubSeq(s, pos, pos + w - 1)) }
           : w \in {x \in DirectiveWidths(fmt[k], Len(s)) : pos + x - 1 <= Len(s)} }

IsLeap(y) == (y % 4 = 0 /\ y % 100 # 0) \/ y % 400 = 0
DaysInMonth(y, m) ==
    CASE m \in {1, 3, 5, 7, 8, 10, 12} -> 31
      [] m \in {4, 6, 9, 11} -> 30
      [] OTHER -> IF IsLeap(y) THEN 29 ELSE 28

\* the dates datetime.strptime(s, fmt) can return (empty: ValueError)
Strptime(s, fmt) ==
    {p \in ParseFrom(s, 1, fmt, 1, [Y |-> 0, m |-> 0, d |-> 0]) :
        p.Y >= 1 /\ p.d <= DaysInMonth(p.Y, p.m)}

Pad(n, width) ==
    LET t == NatStr(n)
    IN  [i \in 1..(width - Len(t)) |-> "0"] \o t

\* date.strftime("%Y-%m-%d") (the model's inputs hold no year below 1000)
StrftimeISO(p) == Pad(p.Y, 4) \o <<"-">> \o Pad(p.m, 2) \o <<"-">> \o Pad(p.d, 2)

\* app_v2.py: the formats parse_date tries, in its order
DateFormats == <<FmtISO, FmtDMy, FmtDMY, FmtBdY, FmtYdot>>

\* standardize_dates.parse_date: the first format that parses str(x), else x itself
RECURSIVE ParseDateFrom(_, _)
ParseDateFrom(x, k) ==
    IF k > Len(DateFormats) THEN x
    ELSE LET Try(got) ==
                 IF got # {} THEN StrCell(StrftimeISO(CHOOSE p \in got : TRUE))
                 ELSE ParseDateFrom(x, k + 1)
         IN  Force(Try, Strptime(PyStr(x), DateFormats[k]))

parse_date(x) == ParseDateFrom(x, 1)

\* standardize_dates(series)
standardize_dates(series) == [i \in DOMAIN series |-> parse_date(series[i])]

(***************************************************************************)
(* Regular expressions of the email validators.                            *)
(***************************************************************************)
NoAt(t) == t # <<>> /\ \A i \in DOMAIN t : t[i] # "@"

\* s[1..e] matches [^@]+@[^@]+\.[^@]+
EmailMatchEnds(s) ==
    {e \in 1..Len(s) :
        \E i, j \in 1..Len(s) :
            /\ i < j /\ j < e
            /\ s[i] = "@" /\ s[j] = "."
            /\ NoAt(SubSeq(s, 1, i - 1))
            /\ NoAt(SubSeq(s, i + 1, j - 1))
            /\ NoAt(SubSeq(s, j + 1, e))}

\* re.match(r"[^@]+@[^@]+\.[^@]+", s): a match of a prefix of s
ReMatchEmail(s) == EmailMatchEnds(s) # {}

InvalidExample == StrCell(<<"i","n","v","a","l","i","d","@","e","x","a","m","p","l","e",".","c","o","m">>)
InvalidEmail == StrCell(<<"i","n","v","a","l","i","d","@","e","m","a","i","l",".","c","o","m">>)

\* app_v2.py validate_emails: the lambda applied to one value
validate_email_v2(x) == IF ReMatchEmail(PyStr(x)) THEN x ELSE InvalidExample
validate_emails(series) == [i \in DOMAIN series |-> validate_email_v2(series[i])]

\* sprint3.py: the lambda of the validate-emails block applied to one value
validate_email_s3(x) == IF IsStr(x) /\ ReMatchEmail(x.v) THEN x ELSE InvalidEmail

(***************************************************************************)
(* difflib.SequenceMatcher and get_close_matches (no junk: the strings are *)
(* shorter than the 200 characters at which autojunk sets in).             *)
(***************************************************************************)
\* length of the common run of a from i and b from j, inside a[..ahi], b[..bhi]
RECURSIVE RunLen(_, _, _, _, _, _)
RunLen(a, b, i, j, ahi, bhi) ==
    IF i > ahi \/ j > bhi \/ a[i] # b[j] THEN 0
    ELSE 1 + RunLen(a, b, i + 1, j + 1, ahi, bhi)

\* find_longest_match: the longest block, the earliest in a, then the earliest in b
FindLongestMatch(a, b, alo, ahi, blo, bhi) ==
    LET cand == {c \in (alo..ahi) \X (blo..bhi) : a[c[1]] = b[c[2]]}
        Longest(size) ==
            LET best == CHOOSE c \in cand :
                            \A e \in cand :
                                \/ size[e] < size[c]
                                \/ size[e] = size[c]
                                   /\ (c[1] < e[1] \/ (c[1] = e[1] /\ c[2] <= e[2]))
            IN  IF cand = {} THEN <<alo, blo, 0>> ELSE <<best[1], best[2], size[best]>>
    IN  Force(Longest, [c \in cand |-> RunLen(a, b, c[1], c[2], ahi, bhi)])

\* the total size of get_matching_blocks() within a[alo..ahi], b[blo..bhi]
RECURSIVE MatchedSize(_, _, _, _, _, _)
MatchedSize(a, b, alo, ahi, blo, bhi) ==
    LET Blocks(m) ==
            IF m[3] = 0 THEN 0
            ELSE m[3] + MatchedSize(a, b, alo, m[1] - 1, blo, m[2] - 1)
                      + MatchedSize(a, b, m[1] + m[3], ahi, m[2] + m[3], bhi)
    IN  Force(Blocks, FindLongestMatch(a, b, alo, ahi, blo, bhi))

\* SequenceMatcher(None, a, b).ratio() = 2.0 * M / T, as the pair <<2 * M, T>>
Ratio(a, b) ==
    IF Len(a) + Len(b) = 0 THEN <<1, 1>>
    ELSE <<2 * MatchedSize(a, b, 1, Len(a), 1, Len(b)), Len(a) + Len(b)>>

\* the cutoff 0.85 of both scripts, in hundredths
FuzzyCutoff == 85

RatioAtLeastCutoff(r) == 100 * r[1] >= FuzzyCutoff * r[2]

\* get_close_matches(word, possibilities, n=1, cutoff=0.85): the best-scoring
\* possibility, the greatest string among equal scores; <<>> when none qualifies
GetCloseMatches(word, possibilities) ==
    LET Largest(score) ==
            LET good == {x \in possibilities : RatioAtLeastCutoff(score[x])}
                better(x, y) == \* (score(x), x) > (score(y), y)
                    \/ score[x][1] * score[y][2] > score[y][1] * score[x][2]
                    \/ score[x][1] * score[y][2] = score[y][1] * score[x][2] /\ StrLess(y, x)
            IN  IF good = {} THEN <<>>
                ELSE <<CHOOSE x \in good : \A y \in good \ {x} : better(x, y)>>
    IN  Force(Largest, [x \in possibilities |-> Ratio(x, word)])

\* series.unique(): the distinct values in first-seen order
RECURSIVE Unique(_)
Unique(series) ==
    IF series = <<>> THEN <<>>
    ELSE LET init == SubSeq(series, 1, Len(series) - 1)
             last == series[Len(series)]
         IN  IF last \in Range(init) THEN Unique(init) ELSE Unique(init) \o <<last>>

\* app_v2.py fuzzy_standardize: the mapping after the first n unique values
RECURSIVE FuzzyMapping(_, _)
FuzzyMapping(unique_vals, n) ==
    IF n = 0 THEN [x \in {} |-> x]
    ELSE LET val == unique_vals[n]
             Iteration(mapping) ==
                 LET Assign(match) ==
                         [x \in DOMAIN mapping \cup {val} |->
                             IF x \in DOMAIN mapping THEN mapping[x]
                             ELSE IF match # <<>> THEN mapping[match[1]] ELSE val]
                 IN  Force(Assign, GetCloseMatches(val, DOMAIN mapping))
         IN  Force(Iteration, FuzzyMapping(unique_vals, n - 1))

\* app_v2.py fuzzy_standardize(series, cutoff=0.85)
fuzzy_standardize(series) ==
    LET Standardize(strs) ==
            LET Apply(mapping) == [i \in DOMAIN series |-> StrCell(mapping[strs[i]])]
                Build(unique_vals) == FuzzyMapping(unique_vals, Len(unique_vals))
            IN  Force(Apply, Force(Build, Unique(strs)))
    IN  Force(Standardize, [i \in DOMAIN series |-> StrStrip(PyStr(series[i]))])

\* app_v2.py normalize_text(series, col_name)
normalize_text(series, col_name) ==
    IF StrContains(StrLower(col_name), <<"e","m","a","i","l">>) THEN series
    ELSE [i \in DOMAIN series |-> StrCell(StrTitle(StrLower(StrStrip(PyStr(series[i])))))]

(***************************************************************************)
(* Anomaly detection.  |z| > 3 with z = (x - mean) / std and std the       *)
(* sample standard deviation (ddof = 1) is decided exactly:                *)
(* (x - mean)^2 * (n - 1) > 9 * sum of squared deviations.                 *)
(***************************************************************************)
ZThreshold == 3

SumSqDev(series) ==
    LET Around(mu) ==
            LET Squares(dev) == RatSum([i \in DOMAIN dev |-> RatMul(dev[i], dev[i])])
            IN  Force(Squares, [i \in DOMAIN NonNull(series) |-> RatSub(NonNull(series)[i].v, mu)])
    IN  Force(Around, SeriesMean(series).v)

\* series.std(): "nan" with fewer than two values, else "zero" or "positive"
StdKind(series) ==
    IF Len(NonNull(series)) < 2 THEN "nan"
    ELSE IF SumSqDev(series) = <<0, 1>> THEN "zero" ELSE "positive"

\* what the z-scores of a column are computed from
SeriesStats(series) ==
    [count |-> Len(NonNull(series)), mean |-> SeriesMean(series),
     sumsq |-> SumSqDev(series), std |-> StdKind(series)]

\* the deviation compared with the threshold times the variance
ZScoreExceedsUnsquared(stats, c) ==
    /\ ~IsNull(c)
    /\ stats.std = "positive"
    /\ LET Squared(dev) ==
               RatLess(RatMul(<<ZThreshold, 1>>, stats.sumsq),
                       RatMul(RatMul(dev, dev), <<stats.count - 1, 1>>))
       IN  Force(Squared, RatSub(c.v, stats.mean.v))

\* np.abs(z_scores) > 3 at one cell, z = (x - mean) / std with the sample std:
\* 9 * sum of squared deviations < (x - mean)^2 * (n - 1).  False where the
\* z-score is NaN (a missing cell, a std that is NaN, 0 / 0)
ZScoreExceeds(stats, c) ==
    /\ ~IsNull(c)
    /\ stats.std = "positive"
    /\ LET Squared(dev) ==
               RatLess(RatMul(<<ZThreshold * ZThreshold, 1>>, stats.sumsq),
                       RatMul(RatMul(dev, dev), <<stats.count - 1, 1>>))
       IN  Force(Squared, RatSub(c.v, stats.mean.v))

\* the row positions the mask of column j selects
AnomalyMask(df, j) ==
    LET Mask(stats) == {i \in 1..NRows(df) : ZScoreExceeds(stats, df.data[i][j])}
    IN  Force(Mask, SeriesStats(Column(df, j)))

\* the guard of the division left out
ZScoredAlways(df, j) == TRUE

\* app_v2.py: column j passes "if df[col].std() == 0: continue"
ZScoredV2(df, j) == StdKind(Column(df, j)) # "zero"

\* sprint3.py: column j passes "if pd.notnull(col_std) and col_std > 0"
ZScoredS3(df, j) == StdKind(Column(df, j)) = "positive"

EmptyFrame == Frame(<<>>, <<>>, <<>>)
IsEmptyFrame(df) == NRows(df) = 0 \/ NCols(df) = 0

\* pd.concat([a, b]) of frames with the same columns (or a empty)
Concat(a, b) ==
    IF a = EmptyFrame THEN b
    ELSE Frame(a.columns, a.index \o b.index, a.data \o b.data)

AnomalyColumnName == <<"A","n","o","m","a","l","y","_","C","o","l","u","m","n">>
AnomalyValueName == <<"A","n","o","m","a","l","y","_","V","a","l","u","e">>

\* app_v2.py detect_anomalies: the flagged rows of column j, annotated
ColAnomalies(df, j) ==
    LET sub == TakeRows(df, AnomalyMask(df, j))
    IN  Frame(df.columns \o <<AnomalyColumnName, AnomalyValueName>>,
              sub.index,
              [i \in 1..NRows(sub) |->
                  sub.data[i] \o <<StrCell(df.columns[j]), sub.data[i][j]>>])

\* app_v2.py detect_anomalies(df, threshold=3): the loop up to column j
RECURSIVE DetectLoopV2(_, _)
DetectLoopV2(df, j) ==
    IF j = 0 THEN EmptyFrame
    ELSE LET Iteration(sofar) ==
                 IF j \notin NumericColumns(df) \/ ~ZScoredV2(df, j) \/ AnomalyMask(df, j) = {}
                 THEN sofar
                 ELSE Concat(sofar, ColAnomalies(df, j))
         IN  Force(Iteration, DetectLoopV2(df, j - 1))

detect_anomalies(df) == DetectLoopV2(df, NCols(df))

\* sprint3.py: the anomaly loop up to column j (outliers are plain rows)
RECURSIVE DetectLoopS3(_, _)
DetectLoopS3(df, j) ==
    IF j = 0 THEN EmptyFrame
    ELSE LET Iteration(sofar) ==
                 IF j \notin NumericColumns(df) \/ ~ZScoredS3(df, j) \/ AnomalyMask(df, j) = {}
                 THEN sofar
                 ELSE Concat(sofar, TakeRows(df, AnomalyMask(df, j)))
         IN  Force(Iteration, DetectLoopS3(df, j - 1))

\* sprint3.py: anomalies_df after the loop and its drop_duplicates()
DetectAnomaliesS3(df) ==
    LET Dedup(found) == IF IsEmptyFrame(found) THEN found ELSE drop_duplicates(found)
    IN  Force(Dedup, DetectLoopS3(df, NCols(df)))

\* sprint3.py: the frame stored when detection is switched off
PlaceholderFrame ==
    Frame(<< <<"A","n","o","m","a","l","y"," ","R","e","p","o","r","t">> >>, <<0>>,
          << <<StrCell(<<"N","o"," ","a","n","o","m","a","l","i","e","s"," ",
                        "d","e","t","e","c","t","e","d"," ",
                        "(","p","l","a","c","e","h","o","l","d","e","r",")">>)>> >>)

\* anomalies.index.nunique()
IndexNunique(df) == Cardinality(Range(df.index))

(***************************************************************************)
(* The state of one run.  raw is the caller's frame and work the frame the *)
(* run transforms; shared says that both names denote one pandas object,   *)
(* so that a change made in place through one shows through the other.     *)
(***************************************************************************)
\* a name bound to the caller's frame: no copy yet
BindRaw(df) ==
    [raw |-> df, work |-> df, shared |-> TRUE, trail |-> <<>>, error |-> "none",
     anomalies |-> EmptyFrame, detect_input |-> None, z_scored |-> {}]

\* alias instead of copy
DataFrameCopyAlias(st) == st

\* df.copy(): a new object with the same content
DataFrameCopy(st) == [st EXCEPT !.shared = FALSE]

\* a change of the work frame in place (inplace=True, df[col] = ..., df.columns = ...)
InPlace(st, df) ==
    LET Write(new) == [st EXCEPT !.work = new, !.raw = IF st.shared THEN new ELSE @]
    IN  Force(Write, df)

\* the work name bound to the new frame a pandas call returned
Rebind(st, df) == [st EXCEPT !.work = df, !.shared = FALSE]

Mark(st, step) == [st EXCEPT !.trail = Append(@, step)]
Raise(st, e) == [st EXCEPT !.error = e]
Failed(st) == st.error # "none"

\* the frame with the columns in J replaced by F(column, its position)
MapColumns(df, J, F(_, _)) ==
    LET Build(cols) ==
            [df EXCEPT !.data = [i \in 1..NRows(df) |-> [j \in ColIds(df) |-> cols[j][i]]]]
    IN  Force(Build, [j \in ColIds(df) |->
                         IF j \in J THEN F(Column(df, j), j) ELSE Column(df, j)])

NameHas(df, j, word) == StrContains(StrLower(df.columns[j]), word)
WordEmail == <<"e", "m", "a", "i", "l">>
WordDate == <<"d", "a", "t", "e">>
NAText == StrCell(<<"N", "/", "A">>)

MissingChoices == {"Fill with N/A", "Fill with Mean", "Fill with Median",
                   "Fill by most common", "Drop Rows"}

\* c.strip().lower().replace(" ", "_") for every column name
StandardizeColumns(df) ==
    [df EXCEPT !.columns = [j \in ColIds(df) |-> StrReplaceSpace(StrLower(StrStrip(df.columns[j])))]]

(***************************************************************************)
(* app_v2.py: fill_missing and the cleaning steps of "Run Cleaning".       *)
(***************************************************************************)
\* df_copy[col].fillna(value, inplace=True): a write through a column taken from
\* the frame.  It reaches the frame in pandas before 3.0 and is lost under
\* Copy-on-Write (pandas 3.0): chained says which
ChainedFillna(st, j, value, chained) ==
    IF chained THEN InPlace(st, SetColumn(st.work, j, fillna(Column(st.work, j), value)))
    ELSE st

\* one iteration of fill_missing's loop, for the column at position j
FillColumnV2(run, method, j, chained) ==
    LET Do(st) ==
            LET df == st.work
                col == Column(df, j)
            IN  IF ~\E i \in DOMAIN col : IsNull(col[i]) THEN st
                ELSE CASE method = "Drop Rows" -> InPlace(st, dropna(df))
                       [] method = "Fill with N/A" -> ChainedFillna(st, j, NAText, chained)
                       [] method = "Fill with Mean" /\ IsNumericColumn(df, j) ->
                              ChainedFillna(st, j, SeriesMean(col), chained)
                       [] method = "Fill with Median" /\ IsNumericColumn(df, j) ->
                              ChainedFillna(st, j, SeriesMedian(col), chained)
                       [] method = "Fill by most common" ->
                              IF ModeSet(col) = {} THEN Raise(st, "KeyError")  \* mode()[0] of no mode
                              ELSE ChainedFillna(st, j, ModeFirst(col), chained)
                       [] OTHER -> st
    IN  Force(Do, run)

RECURSIVE FillLoopV2(_, _, _, _)
FillLoopV2(st, method, j, chained) ==
    IF j = 0 THEN st
    ELSE LET Iteration(before) ==
                 IF Failed(before) THEN before ELSE FillColumnV2(before, method, j, chained)
         IN  Force(Iteration, FillLoopV2(st, method, j - 1, chained))

\* fill_missing(df, method): works on df.copy() and returns it
fill_missing(st, method, chained) ==
    LET Loop(df_copy) == FillLoopV2(df_copy, method, NCols(df_copy.work), chained)
    IN  Force(Loop, DataFrameCopy(st))

\* the strategy ignored: rows dropped whatever was chosen
StepImputeAlwaysDrop(run, cfg, chained) ==
    LET Do(st) ==
            IF Failed(st) THEN st ELSE fill_missing(Mark(st, "impute"), "Drop Rows", chained)
    IN  Force(Do, run)

StepImputeV2(run, cfg, chained) ==
    LET Do(st) ==
            IF Failed(st) THEN st
            ELSE fill_missing(Mark(st, "impute"), cfg.missing_choice, chained)
    IN  Force(Do, run)

\* the remove-duplicates box ignored
StepDedupSkipped(run, cfg) == run

StepDedupV2(run, cfg) ==
    LET Do(st) ==
            IF Failed(st) \/ ~cfg.remove_duplicates THEN st
            ELSE InPlace(Mark(st, "dedup"), drop_duplicates(st.work))
    IN  Force(Do, run)

StepColumnsV2(run, cfg) ==
    LET Do(st) ==
            IF Failed(st) \/ ~cfg.standardize_column_names THEN st
            ELSE InPlace(Mark(st, "stdcols"), StandardizeColumns(st.work))
    IN  Force(Do, run)

StepTextV2(run, cfg) ==
    LET Do(st) ==
            IF Failed(st) \/ ~cfg.normalize_text THEN st
            ELSE LET df == st.work
                     F(series, j) == normalize_text(series, df.columns[j])
                 IN  InPlace(Mark(st, "normtext"), MapColumns(df, ObjectColumns(df), F))
    IN  Force(Do, run)

StepDatesV2(run, cfg) ==
    LET Do(st) ==
            IF Failed(st) \/ ~cfg.fix_date_formats THEN st
            ELSE LET df == st.work
                     F(series, j) == standardize_dates(series)
                 IN  InPlace(Mark(st, "dates"),
                             MapColumns(df, {j \in ColIds(df) : NameHas(df, j, WordDate)}, F))
    IN  Force(Do, run)

StepEmailsV2(run, cfg) ==
    LET Do(st) ==
            IF Failed(st) \/ ~cfg.validate_emails THEN st
            ELSE LET df == st.work
                     F(series, j) == validate_emails(series)
                 IN  InPlace(Mark(st, "emails"),
                             MapColumns(df, {j \in ColIds(df) : NameHas(df, j, WordEmail)}, F))
    IN  Force(Do, run)

StepFuzzyV2(run, cfg) ==
    LET Do(st) ==
            IF Failed(st) \/ ~cfg.fuzzy_standardize THEN st
            ELSE LET df == st.work
                     F(series, j) == fuzzy_standardize(series)
                 IN  InPlace(Mark(st, "fuzzy"), MapColumns(df, ObjectColumns(df), F))
    IN  Force(Do, run)

StepAnomaliesV2(run, cfg) ==
    LET Do(st) ==
            IF Failed(st) \/ ~cfg.detect_anomalies THEN st
            ELSE [Mark(st, "anomalies") EXCEPT
                     !.anomalies = detect_anomalies(st.work),
                     !.detect_input = st.work,
                     !.z_scored = {j \in NumericColumns(st.work) : ZScoredV2(st.work, j)}]
    IN  Force(Do, run)

\* dedup only after the text steps
CleanV2Reordered(df, cfg, chained) ==
    StepAnomaliesV2(StepDedupV2(StepFuzzyV2(StepEmailsV2(StepDatesV2(StepTextV2(
        StepColumnsV2(StepImputeV2(DataFrameCopy(BindRaw(df)), cfg, chained), cfg),
        cfg), cfg), cfg), cfg), cfg), cfg)

\* duplicates dropped before the missing values are filled
CleanV2DedupFirst(df, cfg, chained) ==
    StepAnomaliesV2(StepFuzzyV2(StepEmailsV2(StepDatesV2(StepTextV2(StepColumnsV2(
        StepImputeV2(StepDedupV2(DataFrameCopy(BindRaw(df)), cfg), cfg, chained),
        cfg), cfg), cfg), cfg), cfg), cfg)

\* app_v2.py, "Cleaning steps": the statements in their order
CleanV2(df, cfg, chained) ==
    StepAnomaliesV2(StepFuzzyV2(StepEmailsV2(StepDatesV2(StepTextV2(StepColumnsV2(
        StepDedupV2(StepImputeV2(DataFrameCopy(BindRaw(df)), cfg, chained), cfg),
        cfg), cfg), cfg), cfg), cfg), cfg)

(***************************************************************************)
(* sprint3.py: the run_cleaning block.                                     *)
(*                                                                         *)
(* pd.to_datetime(series, errors="coerce") is pandas' code; it is modelled *)
(* as pandas 2 documents it: the format is guessed from the first          *)
(* non-missing element and applied to every element, an element that does  *)
(* not parse becomes NaT; without a guessed format each element is parsed  *)
(* on its own.  Month comes first in an ambiguous date (dayfirst=False).   *)
(* What a number becomes differs between pandas versions (a time since the *)
(* epoch, or NaT): epoch chooses, and every run takes either choice.       *)
(***************************************************************************)
PandasFormats == <<FmtISO, FmtMDy, FmtMDY, FmtBdY, FmtYdot>>

GuessFormats(x) ==
    IF ~IsStr(x) THEN {}
    ELSE {k \in DOMAIN PandasFormats : Strptime(x.v, PandasFormats[k]) # {}}

EpochDate == StrCell(<<"1","9","7","0","-","0","1","-","0","1">>)

\* one element under the format set ks: its "%Y-%m-%d" text, or NaN for NaT
ToDatetimeElement(x, ks, epoch) ==
    CASE IsNull(x) -> NaN
      [] IsNum(x) -> IF epoch /\ ks = DOMAIN PandasFormats THEN EpochDate ELSE NaN
      [] OTHER ->
           LET First(parsed) ==
                   LET hit == {k \in ks : parsed[k] # {}}
                   IN  IF hit = {} THEN NaN
                       ELSE LET k == CHOOSE k \in hit : \A h \in hit : k <= h
                            IN  StrCell(StrftimeISO(CHOOSE q \in parsed[k] : TRUE))
           IN  Force(First, [k \in ks |-> Strptime(x.v, PandasFormats[k])])

\* pd.to_datetime(series, errors="coerce").dt.strftime("%Y-%m-%d")
ToDatetimeS3(series, epoch) ==
    LET xs == NonNull(series)
        Formats(guess) ==
            IF guess = {} THEN DOMAIN PandasFormats
            ELSE {CHOOSE k \in guess : \A h \in guess : k <= h}
        Convert(ks) == [i \in DOMAIN series |-> ToDatetimeElement(series[i], ks, epoch)]
    IN  Force(Convert, Force(Formats, IF xs = <<>> THEN {} ELSE GuessFormats(xs[1])))

\* the body of the fix-dates loop for one column: converted if any value parsed
FixDatesColumnS3(series, epoch) ==
    LET Assign(parsed) ==
            IF \E i \in DOMAIN parsed : ~IsNull(parsed[i]) THEN parsed ELSE series
    IN  Force(Assign, ToDatetimeS3(series, epoch))

StepImputeS3(run, cfg) ==
    LET Do(st) ==
            LET m == Mark(st, "impute")
                df == st.work
                fillNA(series, j) == fillna(series, NAText)
                fillMean(series, j) == fillna(series, SeriesMean(series))
                fillMedian(series, j) == fillna(series, SeriesMedian(series))
                fillMode(series, j) ==
                    IF ModeSet(series) = {} THEN series ELSE fillna(series, ModeFirst(series))
            IN  CASE cfg.missing_choice = "Fill with N/A" -> Rebind(m, MapColumns(df, ColIds(df), fillNA))
                  [] cfg.missing_choice = "Fill with Mean" ->
                         InPlace(m, MapColumns(df, NumericColumns(df), fillMean))
                  [] cfg.missing_choice = "Fill with Median" ->
                         InPlace(m, MapColumns(df, NumericColumns(df), fillMedian))
                  [] cfg.missing_choice = "Fill by most common" ->
                         InPlace(m, MapColumns(df, ColIds(df), fillMode))
                  [] cfg.missing_choice = "Drop Rows" -> Rebind(m, dropna(df))
    IN  Force(Do, run)

StepDedupS3(run, cfg) ==
    LET Do(st) ==
            IF Failed(st) \/ ~cfg.remove_duplicates THEN st
            ELSE Rebind(Mark(st, "dedup"), drop_duplicates(st.work))
    IN  Force(Do, run)

StepColumnsS3(run, cfg) ==
    LET Do(st) ==
            IF Failed(st) \/ ~cfg.standardize_column_names THEN st
            ELSE InPlace(Mark(st, "stdcols"), StandardizeColumns(st.work))
    IN  Force(Do, run)

StepTextS3(run, cfg) ==
    LET Do(st) ==
            IF Failed(st) \/ ~cfg.normalize_text THEN st
            ELSE LET df == st.work
                     F(series, j) == [i \in DOMAIN series |->
                                         StrCell(StrCapitalize(StrStrip(PyStr(series[i]))))]
                 IN  InPlace(Mark(st, "normtext"),
                             MapColumns(df, {j \in ObjectColumns(df) : ~NameHas(df, j, WordEmail)}, F))
    IN  Force(Do, run)

StepDatesS3(run, cfg, epoch) ==
    LET Do(st) ==
            IF Failed(st) \/ ~cfg.fix_date_formats THEN st
            ELSE LET df == st.work
                     F(series, j) == FixDatesColumnS3(series, epoch)
                 IN  InPlace(Mark(st, "dates"),
                             MapColumns(df, {j \in ColIds(df) :
                                               NameHas(df, j, WordDate) \/ j \in ObjectColumns(df)}, F))
    IN  Force(Do, run)

StepEmailsS3(run, cfg) ==
    LET Do(st) ==
            IF Failed(st) \/ ~cfg.validate_emails THEN st
            ELSE LET df == st.work
                     F(series, j) == [i \in DOMAIN series |-> validate_email_s3(series[i])]
                 IN  InPlace(Mark(st, "emails"),
                             MapColumns(df, {j \in ColIds(df) : NameHas(df, j, WordEmail)}, F))
    IN  Force(Do, run)

\* the mapping the fuzzy block builds for one column: v -> match[0] when it differs
FuzzyMappingS3(series) ==
    LET vals == {c.v : c \in Range(NonNull(series))}
        Differing(match) ==
            [v \in {w \in vals : match[w] # <<>> /\ match[w][1] # w} |-> match[v][1]]
    IN  Force(Differing, [v \in vals |-> GetCloseMatches(v, vals)])

\* difflib raises TypeError on a value that is not a string
FuzzyRaisesS3(df) ==
    \E j \in ObjectColumns(df) : \E i \in 1..NRows(df) : IsNum(df.data[i][j])

StepFuzzyS3(run, cfg) ==
    LET Do(st) ==
            IF Failed(st) \/ ~cfg.fuzzy_standardize THEN st
            ELSE LET df == st.work
                     F(series, j) ==
                         LET Replace(mapping) ==
                                 [i \in DOMAIN series |->
                                     IF IsStr(series[i]) /\ series[i].v \in DOMAIN mapping
                                     THEN StrCell(mapping[series[i].v]) ELSE series[i]]
                         IN  Force(Replace, FuzzyMappingS3(series))
                 IN  IF FuzzyRaisesS3(df) THEN Raise(Mark(st, "fuzzy"), "TypeError")
                     ELSE InPlace(Mark(st, "fuzzy"), MapColumns(df, ObjectColumns(df), F))
    IN  Force(Do, run)

StepAnomaliesS3(run, cfg) ==
    LET Do(st) ==
            IF Failed(st) THEN st
            ELSE IF ~cfg.detect_anomalies THEN [st EXCEPT !.anomalies = PlaceholderFrame]
            ELSE [Mark(st, "anomalies") EXCEPT
                     !.anomalies = DetectAnomaliesS3(st.work),
                     !.detect_input = st.work,
                     !.z_scored = {j \in NumericColumns(st.work) : ZScoredS3(st.work, j)}]
    IN  Force(Do, run)

\* duplicates dropped before the missing values are filled
CleanS3DedupFirst(df, cfg, epoch) ==
    StepAnomaliesS3(StepFuzzyS3(StepEmailsS3(StepDatesS3(StepTextS3(StepColumnsS3(
        StepImputeS3(StepDedupS3(DataFrameCopy(BindRaw(df)), cfg), cfg),
        cfg), cfg), cfg, epoch), cfg), cfg), cfg)

\* sprint3.py, the else branch of "if run_cleaning": the statements in their order
CleanS3(df, cfg, epoch) ==
    StepAnomaliesS3(StepFuzzyS3(StepEmailsS3(StepDatesS3(StepTextS3(StepColumnsS3(
        StepDedupS3(StepImputeS3(DataFrameCopy(BindRaw(df)), cfg), cfg),
        cfg), cfg), cfg, epoch), cfg), cfg), cfg)

(***************************************************************************)
(* Download and upload: df.to_csv(index=False) read back by pd.read_csv.   *)
(***************************************************************************)
\* the text to_csv writes for a cell
CsvText(c) == IF IsNull(c) THEN <<>> ELSE PyStr(c)

\* texts read_csv takes for a missing value (those over the model's alphabet)
NaTexts == { <<>>, <<"N","/","A">>, <<"N","A">>, <<"N","a","N">>, <<"n","a","n">>,
             <<"n","/","a">>, <<"n","u","l","l">>, <<"N","U","L","L">>,
             <<"N","o","n","e">> }

\* digits, or digits "." digits
IsNumberText(t) ==
    \E dot \in 1..(Len(t) + 1) :
        /\ dot > 1 /\ AllDigits(SubSeq(t, 1, dot - 1))
        /\ \/ dot = Len(t) + 1
           \/ t[dot] = "." /\ dot < Len(t) /\ AllDigits(SubSeq(t, dot + 1, Len(t)))

RECURSIVE Pow10(_)
Pow10(n) == IF n = 0 THEN 1 ELSE 10 * Pow10(n - 1)

NumberOfText(t) ==
    LET dots == {i \in DOMAIN t : t[i] = "."}
        dot == IF dots = {} THEN Len(t) + 1 ELSE CHOOSE i \in dots : TRUE
        frac == SubSeq(t, dot + 1, Len(t))
    IN  Rat(DigitsVal(SubSeq(t, 1, dot - 1)) * Pow10(Len(frac)) + DigitsVal(frac),
            Pow10(Len(frac)))

\* one column as read_csv types it: numbers if every present text is a number
ReadCsvColumn(texts) ==
    LET present == {i \in DOMAIN texts : texts[i] \notin NaTexts}
        numeric == \A i \in present : IsNumberText(texts[i])
    IN  [i \in DOMAIN texts |->
            IF i \notin present THEN NaN
            ELSE IF numeric THEN NumCell(NumberOfText(texts[i]))
            ELSE StrCell(texts[i])]

\* pd.read_csv(df.to_csv(index=False)): a fresh RangeIndex, cells typed again
ReadCsvOfToCsv(df) ==
    LET F(series, j) == ReadCsvColumn([i \in DOMAIN series |-> CsvText(series[i])])
        typed == MapColumns(df, ColIds(df), F)
    IN  [typed EXCEPT !.index = [i \in 1..NRows(df) |-> i - 1]]

(***************************************************************************)
(* The files a user uploads: frames as pd.read_csv returns them, with up   *)
(* to MaxRows rows over one of two headers.                                *)
(***************************************************************************)
ColName  == <<"N","a","m","e">>
ColAmt   == <<"A","m","t">>
ColEmail == <<"E","m","a","i","l">>
ColDate  == <<"J","o","i","n"," ","D","a","t","e">>

Abc  == StrCell(<<"a","b","c">>)
ABc  == StrCell(<<"A","b","c">>)
Abcd == StrCell(<<"a","b","c","d">>)

\* rows of a name and an amount: equal rows, names that differ in case or by one
\* letter, missing names and missing amounts
LedgerRows ==
    {<<Abc, Int2Cell(1)>>, <<ABc, Int2Cell(1)>>, <<Abcd, Int2Cell(1)>>,
     <<Abc, NaN>>, <<NaN, Int2Cell(1)>>, <<NaN, NaN>>}

GoodEmail   == StrCell(<<"a","@","b",".","c">>)
NoDotEmail  == StrCell(<<"a","@","b">>)
TwoAtEmail  == StrCell(<<"a","@","b",".","c","@">>)
IsoDate     == StrCell(<<"2","0","2","3","-","0","2","-","0","1">>)
SlashDate   == StrCell(<<"0","1","/","0","2","/","2","3">>)
NoDate      == StrCell(<<"x">>)

\* rows of an e-mail address and a date: well-formed and malformed addresses,
\* dates in two of the formats, text that is no date, missing cells
ContactRows ==
    {<<GoodEmail, IsoDate>>, <<GoodEmail, SlashDate>>, <<NoDotEmail, NoDate>>,
     <<TwoAtEmail, IsoDate>>, <<NaN, NaN>>}

FramesOver(columns, rows) ==
    UNION {{Frame(columns, [i \in 1..n |-> i - 1], data) : data \in [1..n -> rows]}
           : n \in 0..MaxRows}

\* files of names and amounts, and files of e-mail addresses and dates
LedgerFiles == FramesOver(<<ColName, ColAmt>>, LedgerRows)
ContactFiles == FramesOver(<<ColEmail, ColDate>>, ContactRows)

ColNote == <<"N","o","t","e">>

\* rows of a note, an e-mail address and a date: notes that read as a date, as
\* a malformed e-mail address, as neither
NoteRows ==
    {<<SlashDate, GoodEmail, SlashDate>>, <<NoDotEmail, NoDotEmail, IsoDate>>,
     <<NoDate, NaN, NoDate>>}

\* files of notes, e-mail addresses and dates
NoteFiles == FramesOver(<<ColNote, ColEmail, ColDate>>, NoteRows)

ColQty == <<"Q","t","y">>

\* a file of whole numbers, one tuple a row
NumberFile(columns, rows) ==
    Frame(columns, [i \in DOMAIN rows |-> i - 1],
          [i \in DOMAIN rows |-> [j \in DOMAIN columns |-> Int2Cell(rows[i][j])]])

\* files of numbers for the anomaly detector: a column with one large value
\* among five; a constant column; eleven rows with the last one far off in
\* both columns; eleven rows with the first far off in one column and the last
\* in the other; twenty-two rows of one column with two equal rows far off;
\* eleven rows with a constant column beside one with a value far off; a
\* constant column with a missing cell; a single row
DetectFiles ==
    { NumberFile(<<ColAmt>>, <<<<1>>, <<2>>, <<3>>, <<4>>, <<100>>>>),
      NumberFile(<<ColAmt>>, <<<<5>>, <<5>>, <<5>>, <<5>>>>),
      NumberFile(<<ColAmt, ColQty>>,
                 [i \in 1..11 |-> IF i = 11 THEN <<100, 200>> ELSE <<1, 2>>]),
      NumberFile(<<ColAmt, ColQty>>,
                 [i \in 1..11 |-> IF i = 1 THEN <<100, 2>>
                                  ELSE IF i = 11 THEN <<1, 200>> ELSE <<1, 2>>]),
      NumberFile(<<ColAmt>>, [i \in 1..22 |-> IF i \in {7, 22} THEN <<100>> ELSE <<1>>]),
      NumberFile(<<ColAmt, ColQty>>,
                 [i \in 1..11 |-> IF i = 11 THEN <<100, 5>> ELSE <<1, 5>>]),
      Frame(<<ColAmt>>, <<0, 1, 2>>, << <<Int2Cell(5)>>, <<NaN>>, <<Int2Cell(5)>> >>),
      NumberFile(<<ColAmt>>, <<<<5>>>>) }

Apps == {"v2", "s3"}

Configs ==
    [missing_choice : MissingChoices, remove_duplicates : BOOLEAN,
     standardize_column_names : BOOLEAN, normalize_text : BOOLEAN,
     fix_date_formats : BOOLEAN, validate_emails : BOOLEAN,
     fuzzy_standardize : BOOLEAN, detect_anomalies : BOOLEAN]

\* the widgets' initial values, and app_v2.py's reset_cleaning_options
DefaultConfig ==
    [missing_choice |-> "Fill with N/A", remove_duplicates |-> FALSE,
     standardize_column_names |-> FALSE, normalize_text |-> FALSE,
     fix_date_formats |-> FALSE, validate_emails |-> FALSE,
     fuzzy_standardize |-> FALSE, detect_anomalies |-> FALSE]

(***************************************************************************)
(* The figures shown.                                                      *)
(***************************************************************************)
\* app_v2.py: "Save original stats", "Save cleaned stats" and rows_with_anomalies
ReportV2(df, st) ==
    [rows_before |-> NRows(df), nulls_before |-> NullCount(df),
     duplicates_before |-> DuplicatedCount(df),
     rows_after |-> NRows(st.work), nulls_after |-> NullCount(st.work),
     duplicates_after |-> DuplicatedCount(st.work),
     anomalies_count |-> IF IsEmptyFrame(st.anomalies) THEN 0 ELSE IndexNunique(st.anomalies)]

\* sprint3.py: the Summary Report, computed from the session on every rerun
SummaryS3(raw, clean, anom) ==
    IF clean = None
    THEN [total_rows_val |-> 0, null_values_val |-> 0, duplicates_val |-> 0, anomalies_val |-> 0]
    ELSE [total_rows_val |-> NRows(clean), null_values_val |-> NullCount(clean),
          duplicates_val |-> IF raw # None THEN DuplicatedCount(raw) ELSE DuplicatedCount(clean),
          anomalies_val |-> IF anom # None /\ ~IsEmptyFrame(anom) THEN NRows(anom) ELSE 0]

(***************************************************************************)
(* Accounts and the login session.  A password hash is the SHA-256 digest, *)
(* taken as free of collisions.                                            *)
(***************************************************************************)
hash_password(pw) == <<"sha256", pw>>

UserRow(name, mail, pw) == [username |-> name, email |-> mail, password_hash |-> hash_password(pw)]

\* app_v2.py register_user: the INSERT fails on a username or an e-mail
\* address that a row already has (both columns are UNIQUE)
register_user(table, name, mail, pw) ==
    IF \E u \in table : u.username = name \/ u.email = mail
    THEN [ok |-> FALSE, table |-> table]
    ELSE [ok |-> TRUE, table |-> table \cup {UserRow(name, mail, pw)}]

\* sprint3.py add_user: only the email column is UNIQUE
add_user(table, name, mail, pw) ==
    IF \E u \in table : u.email = mail
    THEN [ok |-> FALSE, table |-> table]
    ELSE [ok |-> TRUE, table |-> table \cup {UserRow(name, mail, pw)}]

\* the password left out of the query
LoginByEmail(table, mail, pw) == {u \in table : u.email = mail}

\* app_v2.py login_user: SELECT ... WHERE email=? AND password_hash=?, the rows found
login_user(table, mail, pw) ==
    {u \in table : u.email = mail /\ u.password_hash = hash_password(pw)}

\* sprint3.py verify_user: the same query
verify_user(table, mail, pw) ==
    {u \in table : u.email = mail /\ u.password_hash = hash_password(pw)}

\* app_v2.py is_valid_email: re.match(r"^[^@]+@[^@]+\.[^@]+$", email) on a
\* stripped address (no trailing newline for "$" to stop before)
is_valid_email(mail) == Len(mail) \in EmailMatchEnds(mail)

\* the session's username and email when nobody is logged in: "" in
\* app_v2.py, None in sprint3.py (which has no email in the session)
ClearedUsername == IF app = "v2" THEN <<>> ELSE None
ClearedEmail == IF app = "v2" THEN <<>> ELSE None

LoginPage == "Login / Register"
Menus == IF app = "v2" THEN {"Home", LoginPage, "Profile"} ELSE {"Home", LoginPage}

\* what a user types into the forms
Ann == <<"a","n","n">>
Bob == <<"b","o","b">>
TypedUsernames == {<<>>, Ann, Bob}
TypedEmails == { <<"a","@","b",".","c">>, <<" ","C","@","d",".","e">>, <<"c","@","d">> }
TypedPasswords == {<<"p">>, <<"q">>}

\* auth_log: the kind and outcome of the last account action (tick changes
\* with every one); the credentials the last login attempt queried the table
\* with, and whether a logout followed it; the credentials of the last login
\* attempt that matched a row of the table, and whether a logout followed that
NoAttempt ==
    [tick |-> FALSE, kind |-> "none", ok |-> FALSE,
     last_login |-> None, logout_after_last |-> FALSE,
     granted |-> None, logout_after_granted |-> FALSE]

\* the rows of the table with the e-mail address and the password of cred
Registered(table, cred) ==
    {u \in table : u.email = cred.email /\ u.password_hash = hash_password(cred.pw)}

LogLogin(log, cred, ok, table) ==
    [log EXCEPT !.tick = ~@, !.kind = "login", !.ok = ok,
                !.last_login = cred, !.logout_after_last = FALSE,
                !.granted = IF Registered(table, cred) # {} THEN cred ELSE @,
                !.logout_after_granted = IF Registered(table, cred) # {} THEN FALSE ELSE @]

LogRegister(log, ok) == [log EXCEPT !.tick = ~@, !.kind = "register", !.ok = ok]

LogLogout(log) ==
    [log EXCEPT !.tick = ~@, !.kind = "logout", !.ok = TRUE,
                !.logout_after_last = TRUE, !.logout_after_granted = TRUE]

(***************************************************************************)
(* The scripts' reruns.  Every user action reruns the whole script; an     *)
(* action below is one rerun.                                              *)
(***************************************************************************)
Init ==
    /\ app \in Apps
    /\ uploaded = NoFile
    /\ df_raw = None
    /\ config = DefaultConfig
    /\ df_clean = None
    /\ anomalies = None
    /\ report = IF app = "s3" THEN SummaryS3(None, None, None) ELSE None
    /\ outcome = "none"
    /\ trail = <<>>
    /\ detect_input = None
    /\ z_scored = {}
    /\ run_input = None
    /\ cleaned_from = None
    /\ pandas = "unknown"
    /\ runs = 0
    /\ users = {}
    /\ logged_in = FALSE
    /\ username = ClearedUsername
    /\ email = ClearedEmail
    /\ show_register = FALSE
    /\ menu = "Home"
    /\ auth_log = NoAttempt

\* the rerun after a file was put into the uploader
LoadFile(f) ==
    /\ UNCHANGED auth
    /\ uploaded' = f
    /\ df_raw' = f
    /\ IF app = "v2"
       THEN /\ config' = DefaultConfig            \* reset_cleaning_options
            /\ df_clean' = None /\ anomalies' = None /\ report' = None
       ELSE /\ config' = config
            /\ df_clean' = df_clean /\ anomalies' = anomalies
            /\ report' = SummaryS3(f, df_clean, anomalies)
    /\ UNCHANGED <<app, outcome, trail, detect_input, z_scored, run_input, pandas, runs>>

\* the user uploads a CSV file
Upload(files) ==
    /\ runs = 0
    /\ uploaded = NoFile
    /\ \E f \in files : LoadFile(f)
    /\ cleaned_from' = None

\* the user downloads the cleaned CSV of the run just shown and uploads it
UploadCleaned ==
    /\ runs < MaxRuns
    /\ outcome = "completed"
    /\ df_clean # None
    /\ uploaded = run_input.raw
    /\ LoadFile(ReadCsvOfToCsv(df_clean))
    /\ cleaned_from' = [raw |-> run_input.raw, config |-> run_input.config, clean |-> df_clean]

\* the user sets the option widgets from their initial values to the options of
\* the run (app_v2.py shows the widgets once a file is uploaded)
Configure ==
    /\ UNCHANGED auth
    /\ runs = 0
    /\ app = "v2" => uploaded # NoFile
    /\ config = DefaultConfig
    /\ \E c \in Configs \ {DefaultConfig} : config' = c
    /\ UNCHANGED <<app, uploaded, df_raw, df_clean, anomalies, report, outcome,
                   trail, detect_input, z_scored, run_input, cleaned_from, pandas, runs>>

\* app_v2.py after a new upload reset the options: the user sets those of the last run again
RestoreOptions ==
    /\ UNCHANGED auth
    /\ runs >= 1
    /\ run_input # None
    /\ config # run_input.config
    /\ uploaded # run_input.raw
    /\ config' = run_input.config
    /\ UNCHANGED <<app, uploaded, df_raw, df_clean, anomalies, report, outcome,
                   trail, detect_input, z_scored, run_input, cleaned_from, pandas, runs>>

\* the answers the installed pandas can give: either, until a run has shown it
Answers == IF pandas = "unknown" THEN BOOLEAN ELSE {pandas = "yes"}
Shown(asked, answer) == IF ~asked THEN pandas ELSE IF answer THEN "yes" ELSE "no"

\* app_v2.py asks whether a chained in-place fillna takes effect: wherever
\* fill_missing fills a frame that has a missing cell
AsksChained(df, cfg) == cfg.missing_choice # "Drop Rows" /\ NullCount(df) > 0

\* app_v2.py: the "Run Cleaning" button, shown only while a file is uploaded
RunCleaningV2 ==
    /\ UNCHANGED auth
    /\ app = "v2"
    /\ runs < MaxRuns
    /\ uploaded # NoFile
    /\ \E chained \in (IF AsksChained(df_raw, config) THEN Answers ELSE {TRUE}) :
         \E st \in {CleanV2(df_raw, config, chained)} :
           /\ pandas' = Shown(AsksChained(df_raw, config), chained)
           /\ df_raw' = st.raw
           /\ trail' = st.trail
           /\ detect_input' = st.detect_input
           /\ z_scored' = st.z_scored
           /\ IF Failed(st)
              THEN /\ outcome' = st.error
                   /\ df_clean' = None /\ anomalies' = None /\ report' = None
              ELSE /\ outcome' = "completed"
                   /\ df_clean' = st.work
                   /\ anomalies' = st.anomalies
                   /\ report' = ReportV2(df_raw, st)
    /\ run_input' = [raw |-> df_raw, config |-> config]
    /\ runs' = runs + 1
    /\ UNCHANGED <<app, uploaded, config, cleaned_from>>

\* sprint3.py asks what pd.to_datetime makes of a number: wherever it converts
\* the dates of a frame that holds a number
AsksEpoch(df, cfg) ==
    cfg.fix_date_formats /\ \E i \in 1..NRows(df) : \E j \in ColIds(df) : IsNum(df.data[i][j])

\* the dataset check left out: the steps run on an empty frame
RunCleaningS3Unchecked ==
    /\ UNCHANGED auth
    /\ app = "s3"
    /\ runs < MaxRuns
    /\ \E st \in {CleanS3(IF df_raw = None THEN EmptyFrame ELSE df_raw, config, TRUE)} :
           /\ trail' = st.trail
           /\ detect_input' = st.detect_input
           /\ z_scored' = st.z_scored
           /\ run_input' = [raw |-> df_raw, config |-> config]
           /\ outcome' = IF Failed(st) THEN st.error ELSE "completed"
           /\ df_clean' = st.work
           /\ anomalies' = st.anomalies
           /\ report' = SummaryS3(df_raw, st.work, st.anomalies)
    /\ runs' = runs + 1
    /\ UNCHANGED <<app, uploaded, df_raw, config, cleaned_from, pandas>>

\* sprint3.py: the "Run Cleaning" button
RunCleaningS3 ==
    /\ UNCHANGED auth
    /\ app = "s3"
    /\ runs < MaxRuns
    /\ IF df_raw = None
       THEN /\ outcome' = "NoDatasetLoaded"    \* st.warning("Please upload a CSV ...")
            /\ report' = SummaryS3(df_raw, df_clean, anomalies)
            /\ UNCHANGED <<df_raw, df_clean, anomalies, trail, detect_input, z_scored,
                           run_input, pandas>>
       ELSE \E epoch \in (IF AsksEpoch(df_raw, config) THEN Answers ELSE {TRUE}) :
              \E st \in {CleanS3(df_raw, config, epoch)} :
                  /\ pandas' = Shown(AsksEpoch(df_raw, config), epoch)
                  /\ df_raw' = st.raw
                  /\ trail' = st.trail
                  /\ detect_input' = st.detect_input
           /\ z_scored' = st.z_scored
                  /\ run_input' = [raw |-> df_raw, config |-> config]
                  /\ IF Failed(st)
                     THEN /\ outcome' = st.error
                          /\ report' = None
                          /\ UNCHANGED <<df_clean, anomalies>>
                     ELSE /\ outcome' = "completed"
                          /\ df_clean' = st.work
                          /\ anomalies' = st.anomalies
                          /\ report' = SummaryS3(st.raw, st.work, st.anomalies)
    /\ runs' = runs + 1
    /\ UNCHANGED <<app, uploaded, config, cleaned_from>>

\* the user picks another page in the sidebar
Navigate ==
    /\ \E m \in Menus \ {menu} : menu' = m
    /\ UNCHANGED <<app, cleaning, users, logged_in, username, email, show_register, auth_log>>

\* app_v2.py show_auth_page: "Register here"
RegisterHere ==
    /\ app = "v2" /\ menu = LoginPage /\ ~show_register
    /\ show_register' = TRUE
    /\ UNCHANGED <<app, cleaning, users, logged_in, username, email, menu, auth_log>>

\* app_v2.py show_auth_page: "Back to Login"
BackToLogin ==
    /\ app = "v2" /\ menu = LoginPage /\ show_register
    /\ show_register' = FALSE
    /\ UNCHANGED <<app, cleaning, users, logged_in, username, email, menu, auth_log>>

\* app_v2.py show_auth_page: the login form submitted
LoginV2 ==
    /\ app = "v2" /\ menu = LoginPage /\ ~show_register
    /\ \E typed \in TypedEmails, pw \in TypedPasswords :
         \E mail \in {StrLower(StrStrip(typed))} :
           \E user \in {login_user(users, mail, pw)} :
             /\ IF user # {}
                THEN /\ logged_in' = TRUE
                     /\ username' = (CHOOSE u \in user : TRUE).username
                     /\ email' = (CHOOSE u \in user : TRUE).email
                     /\ show_register' = FALSE
                ELSE UNCHANGED <<logged_in, username, email, show_register>>
             /\ auth_log' = LogLogin(auth_log, [email |-> mail, pw |-> pw], user # {}, users)
    /\ UNCHANGED <<app, cleaning, users, menu>>

\* app_v2.py show_auth_page: the registration form submitted
RegisterV2 ==
    /\ app = "v2" /\ menu = LoginPage /\ show_register
    /\ \E name \in TypedUsernames, typed \in TypedEmails, pw, cpw \in TypedPasswords :
         \E mail \in {StrLower(StrStrip(typed))} :
           IF name = <<>> \/ mail = <<>> \/ pw = <<>> \/ cpw = <<>>   \* "Please fill in all fields."
              \/ ~is_valid_email(mail) \/ pw # cpw
           THEN /\ auth_log' = LogRegister(auth_log, FALSE)
                /\ UNCHANGED <<users, show_register>>
           ELSE \E done \in {register_user(users, name, mail, pw)} :
                  /\ users' = done.table
                  /\ show_register' = IF done.ok THEN FALSE ELSE show_register
                  /\ auth_log' = LogRegister(auth_log, done.ok)
    /\ UNCHANGED <<app, cleaning, logged_in, username, email, menu>>

\* app_v2.py show_profile: "Logout"
LogoutV2 ==
    /\ app = "v2" /\ menu = "Profile" /\ logged_in
    /\ logged_in' = FALSE
    /\ username' = <<>>
    /\ email' = <<>>
    /\ auth_log' = LogLogout(auth_log)
    /\ UNCHANGED <<app, cleaning, users, show_register, menu>>

\* sprint3.py: the "Login" button
LoginS3 ==
    /\ app = "s3" /\ menu = LoginPage
    /\ \E mail \in TypedEmails, pw \in TypedPasswords :
         \E result \in {verify_user(users, mail, pw)} :
           /\ IF result # {}
              THEN /\ logged_in' = TRUE
                   /\ username' = (CHOOSE u \in result : TRUE).username
              ELSE UNCHANGED <<logged_in, username>>
           /\ auth_log' = LogLogin(auth_log, [email |-> mail, pw |-> pw], result # {}, users)
    /\ UNCHANGED <<app, cleaning, users, email, show_register, menu>>

\* sprint3.py: the "Register" button
RegisterS3 ==
    /\ app = "s3" /\ menu = LoginPage
    /\ \E name \in TypedUsernames, mail \in TypedEmails, pw, cpw \in TypedPasswords :
         IF name = <<>> \/ mail = <<>> \/ pw = <<>>      \* "Please fill out all fields."
            \/ pw # cpw
         THEN /\ auth_log' = LogRegister(auth_log, FALSE)
              /\ UNCHANGED users
         ELSE \E done \in {add_user(users, name, mail, pw)} :
                /\ users' = done.table
                /\ auth_log' = LogRegister(auth_log, done.ok)
    /\ UNCHANGED <<app, cleaning, logged_in, username, email, show_register, menu>>

\* sprint3.py: the "Logout" button of the sidebar, on the Home page
LogoutS3 ==
    /\ app = "s3" /\ menu = "Home" /\ logged_in
    /\ logged_in' = FALSE
    /\ username' = None
    /\ auth_log' = LogLogout(auth_log)
    /\ UNCHANGED <<app, cleaning, users, email, show_register, menu>>

\* the user works with files of names and amounts
Next ==
    \/ Upload(LedgerFiles)
    \/ UploadCleaned
    \/ Configure
    \/ RestoreOptions
    \/ RunCleaningV2
    \/ RunCleaningS3

Spec == Init /\ [][Next]_vars

\* the user works with files of e-mail addresses and dates
NextContacts ==
    \/ Upload(ContactFiles)
    \/ UploadCleaned
    \/ Configure
    \/ RestoreOptions
    \/ RunCleaningV2
    \/ RunCleaningS3

SpecContacts == Init /\ [][NextContacts]_vars

\* the user works with files of numbers
NextDetect ==
    \/ Upload(DetectFiles)
    \/ UploadCleaned
    \/ Configure
    \/ RestoreOptions
    \/ RunCleaningV2
    \/ RunCleaningS3

SpecDetect == Init /\ [][NextDetect]_vars

\* the user works with files of notes
NextNotes ==
    \/ Upload(NoteFiles)
    \/ UploadCleaned
    \/ Configure
    \/ RestoreOptions
    \/ RunCleaningV2
    \/ RunCleaningS3

SpecNotes == Init /\ [][NextNotes]_vars

\* the user registers, logs in and out and moves between the pages
NextAuth ==
    \/ Navigate
    \/ RegisterHere
    \/ BackToLogin
    \/ LoginV2
    \/ RegisterV2
    \/ LogoutV2
    \/ LoginS3
    \/ RegisterS3
    \/ LogoutS3

SpecAuth == Init /\ [][NextAuth]_vars

(***************************************************************************)
(* The properties.                                                         *)
(***************************************************************************)
\* a step that is a run request
Ran == runs' = runs + 1

\* the state shows the result of a completed run on the loaded dataset
ShownRun ==
    /\ run_input # None
    /\ outcome = "completed"
    /\ df_clean # None
    /\ df_raw = run_input.raw
    /\ config = run_input.config

FixedOrder ==
    <<"impute", "dedup", "stdcols", "normtext", "dates", "emails", "fuzzy", "anomalies">>

StepEnabled(cfg, step) ==
    CASE step = "impute" -> TRUE
      [] step = "dedup" -> cfg.remove_duplicates
      [] step = "stdcols" -> cfg.standardize_column_names
      [] step = "normtext" -> cfg.normalize_text
      [] step = "dates" -> cfg.fix_date_formats
      [] step = "emails" -> cfg.validate_emails
      [] step = "fuzzy" -> cfg.fuzzy_standardize
      [] step = "anomalies" -> cfg.detect_anomalies

EnabledSteps(cfg) == SelectSeq(FixedOrder, LAMBDA step : StepEnabled(cfg, step))

IsPrefix(s, t) == Len(s) <= Len(t) /\ \A i \in DOMAIN s : s[i] = t[i]

\* a step after deduplication that rewrites cells
TextSteps(cfg) ==
    cfg.normalize_text \/ cfg.fix_date_formats \/ cfg.validate_emails \/ cfg.fuzzy_standardize

RowsBefore == IF app = "v2" THEN report.rows_before ELSE NRows(run_input.raw)
RowsAfter == IF app = "v2" THEN report.rows_after ELSE report.total_rows_val
DuplicatesBefore == IF app = "v2" THEN report.duplicates_before ELSE report.duplicates_val

\* C1: in every run on a loaded dataset the steps that ran are the enabled steps
\* in the fixed order (a run that raises stops within that order), and the
\* anomaly detector reads the dataset all earlier steps produced, which is the
\* dataset the run returns
C1_FixedStepOrder ==
    [][Ran /\ df_raw # None =>
          /\ IsPrefix(trail', EnabledSteps(config))
          /\ outcome' = "completed" =>
                /\ trail' = EnabledSteps(config)
                /\ config.detect_anomalies => detect_input' = df_clean']_vars

C1_Witness ==
    /\ outcome = "completed"
    /\ trail = FixedOrder
    /\ detect_input = df_clean
    /\ df_clean.data # run_input.raw.data

\* C2: a run request leaves the raw dataset as it was, and the figures a
\* completed run reports about the dataset before the run are those of the raw
\* dataset after it
C2_RawUnchanged ==
    [][Ran =>
          /\ df_raw' = df_raw
          /\ (app = "v2" /\ outcome' = "completed") =>
                /\ report'.rows_before = NRows(df_raw')
                /\ report'.nulls_before = NullCount(df_raw')
                /\ report'.duplicates_before = DuplicatedCount(df_raw')
          /\ (app = "s3" /\ outcome' = "completed") =>
                report'.duplicates_val = DuplicatedCount(df_raw')]_vars

C2_Witness ==
    /\ ShownRun
    /\ df_clean.data # df_raw.data
    /\ df_clean.columns # df_raw.columns
    /\ NullCount(df_raw) > 0
    /\ DuplicatedCount(df_raw) > 0

\* C3: a run requested while no dataset is loaded ends with NoDatasetLoaded,
\* executes no step and leaves the cleaned dataset and the anomaly set as they
\* were; a run on a loaded dataset never ends with NoDatasetLoaded
C3_NoDatasetLoaded ==
    [][Ran =>
          IF df_raw = None
          THEN /\ outcome' = "NoDatasetLoaded"
               /\ trail' = trail /\ detect_input' = detect_input
               /\ df_clean' = df_clean /\ anomalies' = anomalies
               /\ df_raw' = None
          ELSE outcome' # "NoDatasetLoaded"]_vars

C3_Witness ==
    /\ outcome = "NoDatasetLoaded"
    /\ runs >= 1
    /\ df_raw = None
    /\ df_clean = None /\ anomalies = None /\ trail = <<>>

\* C4 as stated: a completed run with remove_duplicates and a strategy other
\* than Drop Rows on n rows with d duplicates reports duplicates_before = d,
\* rows_after = n - d and duplicates_after = 0, whatever the other options
C4_AsStated ==
    (ShownRun /\ config.remove_duplicates /\ config.missing_choice # "Drop Rows") =>
        /\ DuplicatesBefore = DuplicatedCount(run_input.raw)
        /\ RowsAfter = NRows(run_input.raw) - DuplicatedCount(run_input.raw)
        /\ app = "v2" => report.duplicates_after = 0

\* C4: such a run reports duplicates_before = d and rows_after <= n - d;
\* rows_after = n - d when the dataset has no missing cell or the strategy is
\* Fill with N/A; duplicates_after = 0 when no text, date, e-mail or fuzzy step
\* runs after the deduplication
C4_DedupCounts ==
    (ShownRun /\ config.remove_duplicates /\ config.missing_choice # "Drop Rows") =>
        /\ DuplicatesBefore = DuplicatedCount(run_input.raw)
        /\ RowsAfter <= NRows(run_input.raw) - DuplicatedCount(run_input.raw)
        /\ (NullCount(run_input.raw) = 0 \/ config.missing_choice = "Fill with N/A") =>
              RowsAfter = NRows(run_input.raw) - DuplicatedCount(run_input.raw)
        /\ (app = "v2" /\ ~TextSteps(config)) => report.duplicates_after = 0

C4_Witness ==
    /\ ShownRun /\ config.remove_duplicates /\ config.missing_choice = "Fill with N/A"
    /\ app = "v2" /\ ~TextSteps(config)
    /\ DuplicatedCount(run_input.raw) > 0 /\ NullCount(run_input.raw) > 0
    /\ report.duplicates_before = DuplicatedCount(run_input.raw)
    /\ report.rows_after = report.rows_before - report.duplicates_before
    /\ report.duplicates_after = 0

\* the run requested now cleans the cleaned output of an earlier run, with
\* that run's options, remove_duplicates among them
SecondRun ==
    /\ Ran
    /\ cleaned_from # None
    /\ cleaned_from.config = config
    /\ config.remove_duplicates
    /\ outcome' = "completed"

SameRowCount ==
    /\ NRows(df_clean') = NRows(df_raw)
    /\ app = "v2" => report'.rows_after = report'.rows_before

\* C5 as stated: the second run gives rows_before = rows_after for every
\* dataset and every setting of the other options
C5_AsStated == [][SecondRun => SameRowCount]_vars

\* the cleaned output was loaded back without two of its rows becoming equal
LoadedBackDistinct ==
    /\ NRows(df_raw) = NRows(cleaned_from.clean)
    /\ \A a, b \in 1..NRows(df_raw) :
          df_raw.data[a] = df_raw.data[b] => cleaned_from.clean.data[a] = cleaned_from.clean.data[b]

\* C5: the second run gives rows_before = rows_after when no text, date,
\* e-mail or fuzzy step is enabled and the cleaned output was loaded back
\* without two of its rows becoming equal
C5_DedupIdempotent ==
    [][(SecondRun /\ ~TextSteps(config) /\ LoadedBackDistinct) => SameRowCount]_vars

C5_Witness ==
    /\ ShownRun /\ cleaned_from # None /\ cleaned_from.config = config
    /\ config.remove_duplicates /\ ~TextSteps(config)
    /\ NRows(cleaned_from.raw) > NRows(df_raw)
    /\ NRows(df_clean) = NRows(df_raw)
    /\ NRows(df_raw) > 0 /\ LoadedBackDistinct

\* C6: a completed run without remove_duplicates reports rows_after <=
\* rows_before under Drop Rows and rows_after = rows_before under every other
\* strategy, whatever the other options
C6_RowCounts ==
    (ShownRun /\ ~config.remove_duplicates) =>
        IF config.missing_choice = "Drop Rows"
        THEN RowsAfter <= RowsBefore
        ELSE RowsAfter = RowsBefore

C6_Witness ==
    /\ ShownRun /\ ~config.remove_duplicates /\ TextSteps(config)
    /\ config.missing_choice = "Fill with Mean"
    /\ NullCount(run_input.raw) > 0 /\ DuplicatedCount(run_input.raw) > 0
    /\ RowsAfter = RowsBefore /\ RowsBefore = MaxRows

\* the position in the raw dataset of the row a cleaned row came from
RawPosition(label) == CHOOSE i \in 1..NRows(run_input.raw) : run_input.raw.index[i] = label

\* C7: under Drop Rows (no deduplication) the cleaned rows are exactly the raw
\* rows without a missing cell, in their original order; with no later step
\* that rewrites cells they hold the raw cells
C7_DropRows ==
    (ShownRun /\ config.missing_choice = "Drop Rows" /\ ~config.remove_duplicates) =>
        /\ Range(df_clean.index) =
              {run_input.raw.index[i] : i \in {h \in 1..NRows(run_input.raw) :
                                                  ~RowHasNull(run_input.raw.data[h])}}
        /\ \A a, b \in 1..NRows(df_clean) :
              a < b => RawPosition(df_clean.index[a]) < RawPosition(df_clean.index[b])
        /\ ~TextSteps(config) =>
              \A a \in 1..NRows(df_clean) :
                  df_clean.data[a] = run_input.raw.data[RawPosition(df_clean.index[a])]

C7_Witness ==
    /\ ShownRun /\ config.missing_choice = "Drop Rows" /\ ~config.remove_duplicates
    /\ ~TextSteps(config)
    /\ NRows(df_clean) = 1 /\ NRows(run_input.raw) = 2
    /\ \A j \in ColIds(run_input.raw) :
          \E i \in 1..NRows(run_input.raw) : IsNull(run_input.raw.data[i][j])

\* the last run used "Fill by most common" on a dataset with a column whose
\* cells are all missing, and nothing else that can raise
FillModeOnAllMissing ==
    /\ run_input # None /\ run_input.raw # None
    /\ run_input.config.missing_choice = "Fill by most common"
    /\ ~run_input.config.fuzzy_standardize
    /\ NRows(run_input.raw) > 0
    /\ \E j \in ColIds(run_input.raw) :
          \A i \in 1..NRows(run_input.raw) : IsNull(run_input.raw.data[i][j])

\* C8 as stated: FillMode on an all-missing column does not crash the run: the
\* run completes, with that column left as it was
C8_AsStated ==
    FillModeOnAllMissing =>
        /\ outcome = "completed"
        /\ df_clean # None
        /\ \A j \in ColIds(run_input.raw) :
              (\A i \in 1..NRows(run_input.raw) : IsNull(run_input.raw.data[i][j])) =>
                  \A i \in 1..NRows(df_clean) : IsNull(df_clean.data[i][j])

\* the whole of s matches ^[^@]+@[^@]+\.[^@]+$
ReFullMatchEmail(s) == Len(s) \in EmailMatchEnds(s)

\* the last run validated e-mail addresses and did nothing else to the cells
\* of the e-mail column
OnlyEmailsValidated ==
    /\ ShownRun
    /\ config.validate_emails
    /\ ~config.remove_duplicates /\ ~config.normalize_text
    /\ ~config.fix_date_formats /\ ~config.fuzzy_standardize
    /\ config.missing_choice \in {"Fill with Mean", "Fill with Median"}

\* C9 as stated: a value of an e-mail column is kept iff the whole value
\* matches ^[^@]+@[^@]+\.[^@]+$; every other value becomes invalid@example.com
C9_AsStated ==
    OnlyEmailsValidated =>
        \A j \in ColIds(df_raw) : NameHas(df_raw, j, WordEmail) =>
            \A i \in 1..NRows(df_raw) :
                df_clean.data[i][j] =
                    IF IsStr(df_raw.data[i][j]) /\ ReFullMatchEmail(df_raw.data[i][j].v)
                    THEN df_raw.data[i][j]
                    ELSE InvalidExample

\* the last run fixed the date formats and did nothing else to the cells of the
\* date column
OnlyDatesFixed ==
    /\ ShownRun
    /\ config.fix_date_formats
    /\ ~config.remove_duplicates /\ ~config.normalize_text
    /\ ~config.validate_emails /\ ~config.fuzzy_standardize
    /\ config.missing_choice \in {"Fill with Mean", "Fill with Median"}

\* what the claim makes of a value: unchanged when none of the five formats
\* parses it, else YYYY-MM-DD by the first format that does
ClaimedDate(c) ==
    IF ~IsStr(c) THEN c
    ELSE LET hit == {k \in DOMAIN DateFormats : Strptime(c.v, DateFormats[k]) # {}}
         IN  IF hit = {} THEN c
             ELSE LET k == CHOOSE k \in hit : \A h \in hit : k <= h
                  IN  StrCell(StrftimeISO(CHOOSE q \in Strptime(c.v, DateFormats[k]) : TRUE))

\* C10 as stated: in a date column a value that matches none of the five
\* formats is passed through unchanged, and a value that matches one is
\* rewritten as YYYY-MM-DD by the first format that parses it
C10_AsStated ==
    OnlyDatesFixed =>
        \A j \in ColIds(df_raw) : NameHas(df_raw, j, WordDate) =>
            \A i \in 1..NRows(df_raw) :
                df_clean.data[i][j] = ClaimedDate(df_raw.data[i][j])

(***************************************************************************)
(* The anomaly detector.                                                   *)
(***************************************************************************)
\* the state shows a completed run on the loaded dataset whose detector ran
DetectorRan == ShownRun /\ config.detect_anomalies /\ detect_input # None

\* the anomaly count the report shows
AnomalyCount == IF app = "v2" THEN report.anomalies_count ELSE report.anomalies_val

\* the detector read one numeric column with the values 1, 2, 3, 4, 100
SampleColumn == [i \in 1..5 |-> Int2Cell(<<1, 2, 3, 4, 100>>[i])]
ReadSample == DetectorRan /\ NCols(detect_input) = 1 /\ Column(detect_input, 1) = SampleColumn

\* C11 as stated: for a numeric column [1, 2, 3, 4, 100] and threshold 3 the
\* detector flags exactly one row, the one with the value 100
C11_AsStated ==
    ReadSample => /\ NRows(anomalies) = 1
                  /\ anomalies.data[1][1] = Int2Cell(100)
                  /\ AnomalyCount = 1

\* C11: for a numeric column [1, 2, 3, 4, 100] and threshold 3 the detector
\* flags no row (the z-score of 100 is below 3): the anomaly set is empty and
\* the anomaly count is 0
C11_NoRowFlagged == ReadSample => IsEmptyFrame(anomalies) /\ AnomalyCount = 0

C11_Witness == ReadSample /\ IsEmptyFrame(anomalies) /\ AnomalyCount = 0

\* the rows (positions in the frame the detector read) that some numeric column flags
FlaggedRows == UNION {AnomalyMask(detect_input, j) : j \in NumericColumns(detect_input)}

\* how often the row at position i of the detector's frame is in the anomaly set
TimesInAnomalies(i) ==
    Cardinality({k \in 1..NRows(anomalies) : anomalies.index[k] = detect_input.index[i]})

\* C14 as stated: a row flagged by several numeric columns appears exactly once
\* in the anomaly set, no two distinct flagged rows are merged, and the anomaly
\* count is the number of distinct rows flagged
C14_AsStated ==
    DetectorRan =>
        /\ \A i \in FlaggedRows : TimesInAnomalies(i) = 1
        /\ AnomalyCount = Cardinality(FlaggedRows)

\* all the cells of the series that are not missing are equal
AllEqual(series) == \A a, b \in Range(NonNull(series)) : a = b

\* the standard deviation of the series is zero: two or more values, all equal
\* (it is NaN with fewer than two)
ZeroStd(series) == Len(NonNull(series)) >= 2 /\ AllEqual(series)

\* the numeric columns of the detector's frame whose values are all equal
ConstantColumns ==
    {j \in NumericColumns(detect_input) : AllEqual(Column(detect_input, j))}

\* the anomaly set has a row flagged on account of column j (app_v2.py names
\* the column in Anomaly_Column)
FlaggedBy(j) ==
    \E k \in 1..NRows(anomalies) :
        anomalies.data[k][NCols(detect_input) + 1] = StrCell(detect_input.columns[j])

\* C15: a numeric column with zero variance flags no row and its z-scores are
\* never computed: no row of the anomaly set is there on account of a
\* constant column, the anomaly set is empty when every numeric column is
\* constant, and no column the detector divided by its standard deviation
\* has the standard deviation zero
C15_ZeroVarianceSkipped ==
    DetectorRan =>
        /\ app = "v2" => \A j \in ConstantColumns : ~FlaggedBy(j)
        /\ ConstantColumns = NumericColumns(detect_input) =>
               IsEmptyFrame(anomalies) /\ AnomalyCount = 0
        /\ \A j \in z_scored : ~ZeroStd(Column(detect_input, j))

\* the detector read a constant column beside a column that flags a row
C15_Witness ==
    /\ DetectorRan
    /\ \E j \in ConstantColumns : ZeroStd(Column(detect_input, j)) /\ j \notin z_scored
    /\ z_scored # {}
    /\ ~IsEmptyFrame(anomalies)

(***************************************************************************)
(* The columns the date normalizer and the e-mail validator touch.         *)
(***************************************************************************)
\* the last run fixed dates or validated e-mail addresses, and no other step of
\* it changes a cell of a text column
OnlyDatesAndEmails ==
    /\ ShownRun
    /\ config.fix_date_formats \/ config.validate_emails
    /\ ~config.remove_duplicates /\ ~config.normalize_text /\ ~config.fuzzy_standardize
    /\ config.missing_choice \in {"Fill with Mean", "Fill with Median"}

\* column j of the loaded dataset is none the enabled steps of the two are for
NotForTheTwoSteps(j) ==
    /\ config.fix_date_formats => ~NameHas(df_raw, j, WordDate)
    /\ config.validate_emails => ~NameHas(df_raw, j, WordEmail)

\* C12 as stated: the date normalizer changes only columns whose name contains
\* "date" and the e-mail validator only columns whose name contains "email";
\* every other column is left unchanged by the two steps, whatever it holds
C12_AsStated ==
    OnlyDatesAndEmails =>
        \A j \in ColIds(df_raw) : NotForTheTwoSteps(j) =>
            \A i \in 1..NRows(df_raw) : df_clean.data[i][j] = df_raw.data[i][j]

(***************************************************************************)
(* The fuzzy consolidation.                                                *)
(***************************************************************************)
\* the last run consolidated the text columns and did nothing else to their cells
OnlyFuzzy ==
    /\ ShownRun
    /\ config.fuzzy_standardize
    /\ ~config.remove_duplicates /\ ~config.normalize_text
    /\ ~config.fix_date_formats /\ ~config.validate_emails
    /\ config.missing_choice \in {"Fill with Mean", "Fill with Median"}

\* in column j of the loaded dataset the text of row b is first seen at b, the
\* text of row a was seen before, and of the texts seen before b that of row a
\* is the best match of the text of row b
BestMatchIsEarlier(j, a, b) ==
    /\ a < b
    /\ IsStr(df_raw.data[a][j]) /\ IsStr(df_raw.data[b][j])
    /\ LET earlier == {df_raw.data[i][j].v : i \in {r \in 1..(b - 1) : IsStr(df_raw.data[r][j])}}
       IN  /\ df_raw.data[b][j].v \notin earlier
           /\ GetCloseMatches(df_raw.data[b][j].v, earlier) = <<df_raw.data[a][j].v>>

Remains(j, c) == \E i \in 1..NRows(df_clean) : df_clean.data[i][j] = c

\* C13 as stated: the fuzzy consolidation is greedy first-fit over the distinct
\* values in first-seen order: of two distinct values whose similarity reaches
\* the cutoff, the later one having the earlier one as its best match, never
\* both remain in the column after the step
C13_AsStated ==
    OnlyFuzzy =>
        \A j \in ColIds(df_raw) : \A a, b \in 1..NRows(df_raw) :
            BestMatchIsEarlier(j, a, b) =>
                ~(Remains(j, df_raw.data[a][j]) /\ Remains(j, df_raw.data[b][j]))

(***************************************************************************)
(* Skipped steps and missing cells.                                        *)
(***************************************************************************)
\* the last run had every step switched off, on a dataset with no missing cell
NothingEnabled ==
    /\ ShownRun
    /\ EnabledSteps(config) = <<"impute">>
    /\ NullCount(df_raw) = 0

\* C16 as stated: a skipped step leaves the data unchanged: a run with every
\* flag disabled on a dataset with no missing cell returns the input as the
\* cleaned dataset, and an empty anomaly set
C16_AsStated == NothingEnabled => df_clean = df_raw /\ IsEmptyFrame(anomalies)

\* the number of missing cells the report shows for the cleaned dataset
NullsAfter == IF app = "v2" THEN report.nulls_after ELSE report.null_values_val

\* the imputer of the last run filled no cell: it fills numeric columns with
\* their mean or median, and every missing cell is in a column without a
\* number; no row was removed
ImputerFilledNothing ==
    /\ ShownRun
    /\ ~config.remove_duplicates
    /\ config.missing_choice \in {"Fill with Mean", "Fill with Median"}
    /\ \A j \in ColIds(df_raw) :
          (\E i \in 1..NRows(df_raw) : IsNull(df_raw.data[i][j])) =>
              \A i \in 1..NRows(df_raw) : ~IsNum(df_raw.data[i][j])

\* C17 as stated: only the imputer changes which cells are missing: where it
\* filled nothing the cells missing after the run are those missing before,
\* and nulls_after counts exactly the cells the imputer left unfilled
C17_AsStated ==
    ImputerFilledNothing =>
        /\ \A i \in 1..NRows(df_raw) : \A j \in ColIds(df_raw) :
              IsNull(df_clean.data[i][j]) <=> IsNull(df_raw.data[i][j])
        /\ NullsAfter = NullCount(df_raw)

\* C18 as stated: with detect_anomalies disabled a completed run reports the
\* anomaly count 0 and an anomaly set that holds no row of the dataset
C18_AsStated ==
    (ShownRun /\ ~config.detect_anomalies) =>
        /\ AnomalyCount = 0
        /\ \A k \in 1..NRows(anomalies) : \A i \in 1..NRows(df_clean) :
              anomalies.data[k] # df_clean.data[i]

(***************************************************************************)
(* The results shown and the dataset loaded.                               *)
(***************************************************************************)
\* the session shows a cleaned dataset, an anomaly set or a summary of a run
ResultsShown == df_clean # None \/ anomalies # None

\* C19 as stated: after any sequence of uploads and runs, the cleaned dataset,
\* the anomaly set and the summary shown all derive from the raw dataset that
\* is loaded now: they are those of a run on it
C19_AsStated ==
    ResultsShown =>
        /\ run_input # None /\ run_input.raw = df_raw
        /\ app = "s3" => report = SummaryS3(run_input.raw, df_clean, anomalies)

(***************************************************************************)
(* The login session.                                                      *)
(***************************************************************************)
\* the session state of the login flow
session == <<logged_in, username, email>>

\* the step is a login or a registration that failed
FailedAttempt ==
    /\ auth_log'.tick # auth_log.tick
    /\ auth_log'.kind \in {"login", "register"}
    /\ ~auth_log'.ok

\* the session is that of the user the login attempt cred matched
SessionOf(cred) ==
    /\ cred # None
    /\ \E u \in Registered(users, cred) :
          username = u.username /\ (app = "v2" => email = u.email)

\* after a logout with no login since, the session names nobody
ClearedAfterLogout ==
    (~logged_in /\ auth_log.logout_after_granted) =>
        username = ClearedUsername /\ email = ClearedEmail

\* C20 as stated: logged_in is true only if the last login attempt matched the
\* email and password hash of a registered user and no logout followed it,
\* the session's username being that user's; when logged_in is false after a
\* logout the username and email are cleared; a failed login or registration
\* leaves the session state unchanged
C20_AsStated ==
    /\ [](logged_in => SessionOf(auth_log.last_login) /\ ~auth_log.logout_after_last)
    /\ []ClearedAfterLogout
    /\ [][FailedAttempt => UNCHANGED session]_vars

\* C20: logged_in is true only if a login attempt matched the email and
\* password hash of a registered user and no logout followed the last attempt
\* that did, the session's username being that user's; when logged_in is
\* false after a logout the username and email are cleared; a failed login or
\* registration leaves the session state unchanged
C20_LoginSession ==
    /\ [](logged_in => SessionOf(auth_log.granted) /\ ~auth_log.logout_after_granted)
    /\ []ClearedAfterLogout
    /\ [][FailedAttempt => UNCHANGED session]_vars

\* logged in, the last login attempt having failed
C20_Witness ==
    /\ logged_in
    /\ auth_log.kind = "login" /\ ~auth_log.ok
    /\ SessionOf(auth_log.granted)
    /\ auth_log.last_login # auth_log.granted

=============================================================================
